---- MODULE Spec2Model ----
(***************************************************************************)
(* Monopoly landing-probability simulation (manumei/monopoly).             *)
(*                                                                         *)
(* The model follows the Python sources:                                   *)
(*   board.py       space lists and classification                         *)
(*   utils/cards.py Card classes, Deck, ChanceDeck, CommunityChestDeck     *)
(*   utils/player.py Player (dice, jail, take_turn, _process_landing)      *)
(*   utils/simulation.py MonopolySimulation, run_both_strategies           *)
(*                                                                         *)
(* Randomness.  random.randint(1, 6) is a choice in 1..6.  random.shuffle  *)
(* picks some permutation of the list and Deck.draw pops its last element: *)
(* the permutation is resolved lazily, so Deck.cards is kept as the bag of *)
(* cards still in the list and a pop removes any one of them.  Every order *)
(* a shuffle can produce is covered, and nothing else.                     *)
(*                                                                         *)
(* Python's None is <<>> and a present value v is <<v>>.                   *)
(***************************************************************************)
EXTENDS Integers, Sequences, FiniteSets, Bags, TLC

VARIABLES
    pc,                    \* position of the harness / driver
    arg, result,           \* card harness: (card, current_position), apply's result
    which,                 \* deck harness: the class of the deck built
    deck, card, refilled,  \* deck harness: the Deck, the last drawn card, whether that draw reshuffled
    ndraws, raised,        \* draws made so far; an exception escaped (IndexError)
    since_shuffle,         \* deck harness: the cards drawn since the deck was last shuffled
    player,                \* the Player: position, in_jail, jail_turns, consecutive_doubles, jail_strategy
    chance_deck, community_chest_deck,   \* the trajectory's two decks
    turn,                  \* turns taken by this player
    last,                  \* the latest take_turn call: the player before it, its roll, move_amount,
                           \* the cards it drew and the position it returned
    sim,                   \* the MonopolySimulation: num_iterations, turns_per_iteration, landing_counts
    calls,                 \* the jail strategies the caller has yet to run
    jail_strategy, landing_counts, iteration,   \* run_simulation's argument and locals
    results,               \* per finished call: the counts returned and the probabilities computed
    random_tape,           \* the outcomes the seeded `random` module has produced, in call order
    random_pos             \* how many of them have been consumed since the last random.seed

cardVars == <<arg, result>>
deckVars == <<which, deck, card, refilled, ndraws, since_shuffle>>
playerVars == <<player, chance_deck, community_chest_deck, turn, last>>
simVars == <<sim, calls, jail_strategy, landing_counts, iteration, results>>
randomVars == <<random_tape, random_pos>>

vars == <<pc, raised, cardVars, deckVars, playerVars, simVars, randomVars>>

-----------------------------------------------------------------------------
(* Bounds of the model *)

MaxDraws == 34
MaxTurns == 4
MaxTotalTurns == 3
MaxRepeatTurns == 2

-----------------------------------------------------------------------------
(* board.py *)

CHANCE_SPACES == <<7, 22, 36>>
\* the list with Go (0) where space 2 should be
COMMUNITY_CHEST_SPACES_with_go == <<0, 17, 33>>

COMMUNITY_CHEST_SPACES == <<2, 17, 33>>
RAILROAD_SPACES == <<5, 15, 25, 35>>
UTILITY_SPACES == <<12, 28>>
GO_TO_JAIL_SPACE == 30
JAIL_SPACE == 10
GO_SPACE == 0
BOARD_SIZE == 40

Positions == 0..(BOARD_SIZE - 1)

\* Python's `x in list`
InList(x, list) == \E i \in 1..Len(list) : list[i] = x

is_chance(space) == InList(space, CHANCE_SPACES)

is_community_chest(space) == InList(space, COMMUNITY_CHEST_SPACES)

-----------------------------------------------------------------------------
(* utils/cards.py: the card classes.  A card is its class, its               *)
(* affects_position flag and, for AdvanceToCard, its target_space.  The name *)
(* string is never read by the simulation and is left out.                   *)

None == <<>>
Some(v) == <<v>>

Card == [class |-> "Card", affects_position |-> FALSE]

AdvanceToCard(target_space) ==
    [class |-> "AdvanceToCard", affects_position |-> TRUE, target_space |-> target_space]

GoToJailCard == [class |-> "GoToJailCard", affects_position |-> TRUE]

GoBackCard == [class |-> "GoBackCard", affects_position |-> TRUE]

NearestRailroadCard == [class |-> "NearestRailroadCard", affects_position |-> TRUE]

NearestUtilityCard == [class |-> "NearestUtilityCard", affects_position |-> TRUE]

\* Card.apply: (current_position, False)
Card_apply(c, current_position) == <<current_position, FALSE>>

AdvanceToCard_apply(c, current_position) == <<c.target_space, FALSE>>

\* the jail flag without the move to the Jail space
GoToJailCard_apply_stay(c, current_position) == <<current_position, TRUE>>

GoToJailCard_apply(c, current_position) == <<JAIL_SPACE, TRUE>>

GoBackCard_apply_nowrap(c, current_position) == <<current_position - 3, FALSE>>

\* Python's % with a positive modulus is never negative, like TLA+'s
GoBackCard_apply(c, current_position) == <<(current_position - 3) % BOARD_SIZE, FALSE>>

\* for x in list: if x > current_position: return x;  return list[0]
RECURSIVE NextClockwise(_, _, _)
NextClockwise(list, i, current_position) ==
    IF i > Len(list) THEN list[1]
    ELSE IF list[i] > current_position THEN list[i]
    ELSE NextClockwise(list, i + 1, current_position)

NearestRailroadCard_apply_inclusive(c, current_position) ==
    <<NextClockwise(RAILROAD_SPACES, 1, current_position - 1), FALSE>>

NearestRailroadCard_apply(c, current_position) ==
    <<NextClockwise(RAILROAD_SPACES, 1, current_position), FALSE>>

NearestUtilityCard_apply(c, current_position) ==
    <<NextClockwise(UTILITY_SPACES, 1, current_position), FALSE>>

\* card.apply(current_position), dispatched on the card's class
apply(c, current_position) ==
    CASE c.class = "Card" -> Card_apply(c, current_position)
      [] c.class = "AdvanceToCard" -> AdvanceToCard_apply(c, current_position)
      [] c.class = "GoToJailCard" -> GoToJailCard_apply(c, current_position)
      [] c.class = "GoBackCard" -> GoBackCard_apply(c, current_position)
      [] c.class = "NearestRailroadCard" -> NearestRailroadCard_apply(c, current_position)
      [] c.class = "NearestUtilityCard" -> NearestUtilityCard_apply(c, current_position)

-----------------------------------------------------------------------------
(* utils/cards.py: Deck, ChanceDeck, CommunityChestDeck *)

RECURSIVE SeqToBag(_)
SeqToBag(s) ==
    IF s = <<>> THEN EmptyBag ELSE SetToBag({Head(s)}) (+) SeqToBag(Tail(s))

\* for i in range(n): cards.append(Card(f"No Movement {i}", affects_position=False))
NoMovementCards(n) == [i \in 1..n |-> Card]

\* Deck.shuffle: self.cards = self.all_cards.copy(); random.shuffle(self.cards)
Deck_shuffle(d) == [d EXCEPT !.cards = SeqToBag(d.all_cards)]

\* Deck.__init__
Deck_init(cards) == Deck_shuffle([all_cards |-> cards, cards |-> EmptyBag])

\* self.cards.pop(): IndexError on an empty list, else any card the shuffle left last
Deck_pop(d) ==
    IF d.cards = EmptyBag
    THEN {[card |-> None, deck |-> d, raised |-> TRUE]}
    ELSE {[card |-> Some(c), deck |-> [d EXCEPT !.cards = @ (-) SetToBag({c})], raised |-> FALSE] :
            c \in BagToSet(d.cards)}

\* a refill one draw early: the deck is reshuffled when a single card is left
Deck_draw_early_refill(d) ==
    Deck_pop(IF BagCardinality(d.cards) <= 1 THEN Deck_shuffle(d) ELSE d)

\* Deck.draw without `if not self.cards: self.shuffle()`
Deck_draw_norefill(d) == Deck_pop(d)

\* Deck.draw: the outcomes of one draw
Deck_draw(d) == Deck_pop(IF d.cards = EmptyBag THEN Deck_shuffle(d) ELSE d)

ChanceDeck_cards_short ==
    << AdvanceToCard(GO_SPACE), AdvanceToCard(24), AdvanceToCard(11),
       NearestRailroadCard, NearestUtilityCard, GoBackCard,
       AdvanceToCard(39), GoToJailCard >> \o NoMovementCards(7)

ChanceDeck_cards ==
    << AdvanceToCard(GO_SPACE), AdvanceToCard(24), AdvanceToCard(11),
       NearestRailroadCard, NearestRailroadCard, NearestUtilityCard, GoBackCard,
       AdvanceToCard(39), GoToJailCard >> \o NoMovementCards(7)

ChanceDeck == Deck_init(ChanceDeck_cards)

CommunityChestDeck_cards ==
    << AdvanceToCard(GO_SPACE), GoToJailCard >> \o NoMovementCards(14)

CommunityChestDeck == Deck_init(CommunityChestDeck_cards)

\* create_decks() called once, before the trajectories: each trajectory goes
\* on with the decks the one before it left
create_decks_kept ==
    IF chance_deck.all_cards = <<>>
    THEN <<ChanceDeck, CommunityChestDeck>>
    ELSE <<chance_deck, community_chest_deck>>

\* create_decks()
create_decks == <<ChanceDeck, CommunityChestDeck>>

-----------------------------------------------------------------------------
(* Card harness: card.apply(current_position) for every card of either deck  *)
(* and every board position.                                                 *)

AllCards ==
    {ChanceDeck_cards[i] : i \in 1..Len(ChanceDeck_cards)}
        \cup {CommunityChestDeck_cards[i] : i \in 1..Len(CommunityChestDeck_cards)}

IdleDeck == [all_cards |-> <<>>, cards |-> EmptyBag]

\* The parts of the state a harness does not use
NoCard == arg = None /\ result = None
NoDeck ==
    /\ which = "" /\ deck = IdleDeck /\ card = None /\ refilled = FALSE /\ ndraws = 0
    /\ since_shuffle = EmptyBag
NoPlayer ==
    /\ player = None /\ chance_deck = IdleDeck /\ community_chest_deck = IdleDeck
    /\ turn = 0 /\ last = None
NoSimulation ==
    /\ sim = None /\ calls = <<>> /\ jail_strategy = "" /\ landing_counts = None
    /\ iteration = 0 /\ results = <<>>
NoRandom == random_tape = <<>> /\ random_pos = 0

InitCard ==
    /\ pc = "card"
    /\ arg \in {<<c, p>> : c \in AllCards, p \in Positions}
    /\ result = None
    /\ raised = FALSE
    /\ NoDeck /\ NoPlayer /\ NoSimulation /\ NoRandom

ApplyCard ==
    /\ pc = "card"
    /\ result = None
    /\ result' = Some(apply(arg[1], arg[2]))
    /\ UNCHANGED <<randomVars, pc, arg, raised, deckVars, playerVars, simVars>>

NextCard == ApplyCard

SpecCard == InitCard /\ [][NextCard]_vars

-----------------------------------------------------------------------------
(* Deck harness: a ChanceDeck or a CommunityChestDeck is built and drawn     *)
(* from MaxDraws times.                                                      *)

InitDeck ==
    /\ pc = "deck"
    /\ which \in {"ChanceDeck", "CommunityChestDeck"}
    /\ deck = IF which = "ChanceDeck" THEN ChanceDeck ELSE CommunityChestDeck
    /\ card = None /\ refilled = FALSE /\ ndraws = 0 /\ raised = FALSE
    /\ since_shuffle = EmptyBag
    /\ NoCard /\ NoPlayer /\ NoSimulation /\ NoRandom

Draw ==
    /\ pc = "deck"
    /\ ~raised
    /\ ndraws < MaxDraws
    /\ \E o \in Deck_draw(deck) :
          /\ deck' = o.deck
          /\ card' = o.card
          /\ raised' = o.raised
          /\ since_shuffle' =
                IF o.raised THEN since_shuffle
                ELSE IF BagCardinality(o.deck.cards) >= BagCardinality(deck.cards)
                     THEN SetToBag({o.card[1]})
                     ELSE since_shuffle (+) SetToBag({o.card[1]})
    /\ refilled' = (deck.cards = EmptyBag)
    /\ ndraws' = ndraws + 1
    /\ UNCHANGED <<randomVars, pc, which, cardVars, playerVars, simVars>>

NextDeck == Draw

SpecDeck == InitDeck /\ [][NextDeck]_vars

-----------------------------------------------------------------------------
(* utils/player.py: Player *)

\* Player.__init__
Player(strategy) ==
    [position |-> GO_SPACE, in_jail |-> FALSE, jail_turns |-> 0,
     consecutive_doubles |-> 0, jail_strategy |-> strategy]

\* Player.roll_dice, for the two values random.randint(1, 6) returned
roll_dice(die1, die2) ==
    [die1 |-> die1, die2 |-> die2, total |-> die1 + die2, is_doubles |-> (die1 = die2)]

\* What a caller of roll_dice can see of the 36 rolls: take_turn and
\* handle_jail_turn bind die1 and die2 and read only total and is_doubles
Rolls ==
    {[total |-> r.total, is_doubles |-> r.is_doubles] :
        r \in {roll_dice(die1, die2) : die1 \in 1..6, die2 \in 1..6}}

move_forward_nowrap(p, spaces) == [p EXCEPT !.position = @ + spaces]

\* Player.move_forward
move_forward(p, spaces) == [p EXCEPT !.position = (@ + spaces) % BOARD_SIZE]

\* send_to_jail without the move to the Jail space
send_to_jail_stay(p) ==
    [p EXCEPT !.in_jail = TRUE, !.jail_turns = 0, !.consecutive_doubles = 0]

\* send_to_jail without its last assignment: the doubles count is kept
send_to_jail_keep_doubles(p) ==
    [p EXCEPT !.position = JAIL_SPACE, !.in_jail = TRUE, !.jail_turns = 0]

\* Player.send_to_jail
send_to_jail(p) ==
    [p EXCEPT !.position = JAIL_SPACE, !.in_jail = TRUE, !.jail_turns = 0,
              !.consecutive_doubles = 0]

leave_jail_keep_turns(p) == [p EXCEPT !.in_jail = FALSE]

\* leaving jail: self.in_jail = False; self.jail_turns = 0
leave_jail(p) == [p EXCEPT !.in_jail = FALSE, !.jail_turns = 0]

never_immediately(p) == FALSE

\* if self.jail_strategy == 'B'
leaves_immediately(p) == p.jail_strategy = "B"

forced_out_early(p) == p.jail_turns >= 2

forced_out_late(p) == p.jail_turns >= 4

\* if self.jail_turns >= 3
forced_out(p) == p.jail_turns >= 3

three_doubles_late(p) == p.consecutive_doubles >= 4

\* if self.consecutive_doubles >= 3
three_doubles(p) == p.consecutive_doubles >= 3

\* Player.handle_jail_turn with the roll it makes: <<the player after it, move_amount>>
handle_jail_turn(p, r) ==
    IF leaves_immediately(p)
    THEN <<leave_jail(p), Some(r.total)>>
    ELSE IF r.is_doubles
         THEN <<leave_jail(p), Some(r.total)>>
         ELSE LET q == [p EXCEPT !.jail_turns = @ + 1]
              IN  IF forced_out(q)
                  THEN <<leave_jail(q), Some(r.total)>>
                  ELSE <<q, None>>

\* `return self.position` in take_turn and _process_landing
return_position(w) == [w EXCEPT !.ret = Some(w.player.position)]

\* a chance_deck.draw() / community_chest_deck.draw() that raised
propagate(w) == [w EXCEPT !.raised = TRUE]

\* if go_to_jail: self.in_jail = True; self.jail_turns = 0; self.consecutive_doubles = 0
card_sends_to_jail(p) ==
    [p EXCEPT !.in_jail = TRUE, !.jail_turns = 0, !.consecutive_doubles = 0]

RECURSIVE process_landing(_), community_chest_check(_)
\* _process_landing without the recursive call after a Chance card has moved
\* the player: the new position is returned as it is
process_landing_once(w0) ==
    LET w == [w0 EXCEPT !.landings = Append(@, w0.player.position)]
    IN
    IF w.player.position = GO_TO_JAIL_SPACE
    THEN {return_position([w EXCEPT !.player = send_to_jail(@)])}
    ELSE IF is_chance(w.player.position)
    THEN UNION {
           IF o.raised THEN {propagate(w)}
           ELSE LET c == o.card[1]
                    w1 == [w EXCEPT !.chance_deck = o.deck,
                                    !.drawn = Append(@, <<"chance", c>>)]
                IN  IF c.affects_position
                    THEN LET a == apply(c, w1.player.position)
                             w2 == [w1 EXCEPT !.player.position = a[1]]
                         IN  IF a[2]
                             THEN {return_position([w2 EXCEPT !.player = card_sends_to_jail(@)])}
                             ELSE {return_position(w2)}
                    ELSE community_chest_check(w1)
           : o \in Deck_draw(w.chance_deck) }
    ELSE community_chest_check(w)

\* Player._process_landing.  w0 is the call's view of the world: the player,
\* both decks, the cards drawn so far in this turn and the positions the
\* earlier calls of this turn were entered at.  The result is the set of worlds
\* the call can return, one for every card the draws can produce.
process_landing(w0) ==
    LET w == [w0 EXCEPT !.landings = Append(@, w0.player.position)]
    IN
    IF w.player.position = GO_TO_JAIL_SPACE
    THEN {return_position([w EXCEPT !.player = send_to_jail(@)])}
    ELSE IF is_chance(w.player.position)
    THEN UNION {
           IF o.raised THEN {propagate(w)}
           ELSE LET c == o.card[1]
                    w1 == [w EXCEPT !.chance_deck = o.deck,
                                    !.drawn = Append(@, <<"chance", c>>)]
                IN  IF c.affects_position
                    THEN LET a == apply(c, w1.player.position)
                             w2 == [w1 EXCEPT !.player.position = a[1]]
                         IN  IF a[2]
                             THEN {return_position([w2 EXCEPT !.player = card_sends_to_jail(@)])}
                             ELSE process_landing(w2)
                    ELSE community_chest_check(w1)
           : o \in Deck_draw(w.chance_deck) }
    ELSE community_chest_check(w)

\* the second half of _process_landing: `if is_community_chest(self.position)` onwards
community_chest_check(w) ==
    IF is_community_chest(w.player.position)
    THEN UNION {
           IF o.raised THEN {propagate(w)}
           ELSE LET c == o.card[1]
                    w1 == [w EXCEPT !.community_chest_deck = o.deck,
                                    !.drawn = Append(@, <<"community_chest", c>>)]
                IN  IF c.affects_position
                    THEN LET a == apply(c, w1.player.position)
                             w2 == [w1 EXCEPT !.player.position = a[1]]
                         IN  IF a[2]
                             THEN {return_position([w2 EXCEPT !.player = card_sends_to_jail(@)])}
                             ELSE process_landing(w2)
                    ELSE {return_position(w1)}
           : o \in Deck_draw(w.community_chest_deck) }
    ELSE {return_position(w)}

\* Player.take_turn when its roll_dice call returns r: the set of worlds it
\* can return
take_turn(p, chance, community_chest, r) ==
    LET w == [player |-> p, chance_deck |-> chance, community_chest_deck |-> community_chest,
              roll |-> r, move_amount |-> None, landings |-> <<>>, drawn |-> <<>>,
              ret |-> None, raised |-> FALSE]
    IN  IF p.in_jail
        THEN LET h == handle_jail_turn(p, r)
             IN  IF h[2] # None
                 THEN process_landing([w EXCEPT !.player = move_forward(h[1], h[2][1]),
                                                !.move_amount = h[2]])
                 ELSE {return_position([w EXCEPT !.player = h[1]])}
        ELSE IF r.is_doubles
        THEN LET q == [p EXCEPT !.consecutive_doubles = @ + 1]
             IN  IF three_doubles(q)
                 THEN {return_position([w EXCEPT !.player = send_to_jail(q)])}
                 ELSE process_landing([w EXCEPT !.player = move_forward(q, r.total)])
        ELSE process_landing(
                 [w EXCEPT !.player = move_forward([p EXCEPT !.consecutive_doubles = 0], r.total)])

\* What a take_turn call leaves behind for the claims: the player and the
\* decks it started from, its roll, move_amount, the positions landing
\* resolution ran at, the cards drawn, the returned position, and
\* jailed_turn_no: 0 for a turn begun free, else the number of turns in a row,
\* this one included, that were begun in jail since the player was sent there
Observation(prev, before, w) ==
    [before |-> before, total |-> w.roll.total, is_doubles |-> w.roll.is_doubles,
     move_amount |-> w.move_amount, landings |-> w.landings, drawn |-> w.drawn,
     final_position |-> w.ret,
     jailed_turn_no |->
        IF ~before.in_jail THEN 0
        ELSE IF prev # None /\ prev[1].before.in_jail /\ prev[1].move_amount = None
             THEN prev[1].jailed_turn_no + 1
             ELSE 1]

-----------------------------------------------------------------------------
(* Player harness: a Player of either strategy and a pair of new decks, then *)
(* up to MaxTurns calls of take_turn.                                        *)

InitPlayer ==
    /\ pc = "player"
    /\ raised = FALSE
    /\ \E s \in {"A", "B"} : player = Player(s)
    /\ chance_deck = create_decks[1]
    /\ community_chest_deck = create_decks[2]
    /\ turn = 0
    /\ last = None
    /\ NoCard /\ NoDeck /\ NoSimulation /\ NoRandom

TakeTurn ==
    /\ pc = "player"
    /\ ~raised
    /\ turn < MaxTurns
    /\ \E r \in Rolls :
         \E w \in take_turn(player, chance_deck, community_chest_deck, r) :
            /\ player' = w.player
            /\ chance_deck' = w.chance_deck
            /\ community_chest_deck' = w.community_chest_deck
            /\ raised' = w.raised
            /\ last' = Some(Observation(last, player, w))
    /\ turn' = turn + 1
    /\ UNCHANGED <<randomVars, pc, cardVars, deckVars, simVars>>

NextPlayer == TakeTurn

SpecPlayer == InitPlayer /\ [][NextPlayer]_vars

-----------------------------------------------------------------------------
(* Single-turn harness: one call of take_turn from any state a turn can      *)
(* begin in, the last of MaxTurns turns.                                     *)

\* The players a turn can begin with: free on any space but Go To Jail, or
\* in jail on the Jail space (jail_turns grows under strategy A only)
TurnStartPlayers(strategy) ==
    {[Player(strategy) EXCEPT !.position = p, !.consecutive_doubles = d] :
        p \in Positions \ {GO_TO_JAIL_SPACE}, d \in 0..2}
    \cup
    {[Player(strategy) EXCEPT !.position = JAIL_SPACE, !.in_jail = TRUE, !.jail_turns = j] :
        j \in IF strategy = "B" THEN {0} ELSE 0..2}

\* A deck as it was built, and the same deck with every card drawn
TurnStartDecks(d) == {d, [d EXCEPT !.cards = EmptyBag]}

InitAnyTurn ==
    /\ pc = "player"
    /\ raised = FALSE
    /\ \E s \in {"A", "B"} : player \in TurnStartPlayers(s)
    /\ chance_deck \in TurnStartDecks(create_decks[1])
    /\ community_chest_deck \in TurnStartDecks(create_decks[2])
    /\ turn = MaxTurns - 1
    /\ last = None
    /\ NoCard /\ NoDeck /\ NoSimulation /\ NoRandom

SpecAnyTurn == InitAnyTurn /\ [][NextPlayer]_vars

-----------------------------------------------------------------------------
(* utils/simulation.py: MonopolySimulation and its callers.                  *)
(*                                                                           *)
(* The caller builds MonopolySimulation(num_iterations, turns_per_iteration) *)
(* and, for each strategy of `calls` in turn, calls run_simulation and then  *)
(* calculate_probabilities on the counts returned: run_both_strategies is    *)
(* the caller with calls = <<"A", "B">>.                                     *)

\* MonopolySimulation.__init__
MonopolySimulation(num_iterations, turns_per_iteration) ==
    [num_iterations |-> num_iterations, turns_per_iteration |-> turns_per_iteration,
     landing_counts |-> None]

\* the counters of the call before, where run_simulation should start from zeros
zeros_carried ==
    IF sim.landing_counts = None THEN [i \in 0..39 |-> 0] ELSE sim.landing_counts[1]

\* np.zeros(40, dtype=np.int64)
zeros == [i \in 0..39 |-> 0]

\* np.sum(landing_counts)
RECURSIVE sum_upto(_, _)
sum_upto(a, i) == IF i < 0 THEN 0 ELSE a[i] + sum_upto(a, i - 1)
np_sum(a) == sum_upto(a, 39)

\* landing_counts / total_landings, element by element.  A float is kept as the
\* fraction num/den; den = 0 is numpy's nan (0/0) or inf, which it returns
\* with a warning and without raising.
calculate_probabilities(counts) ==
    LET total_landings == np_sum(counts)
    IN  [i \in 0..39 |-> [num |-> counts[i], den |-> total_landings]]

\* The arguments a caller can pass: counts from -1 up, and a strategy that is
\* 'A', 'B' or neither
Counts == (0 - 1)..MaxTotalTurns
CallSequences == {<<"A", "B">>, <<"A">>, <<"B">>, <<"C">>}

\* The turns a caller's calls take in all: range(n) is empty for n <= 0
TotalTurns(cs, n, t) ==
    Len(cs) * (IF n > 0 THEN n ELSE 0) * (IF t > 0 THEN t ELSE 0)

Init ==
    /\ pc = "call"
    /\ raised = FALSE
    /\ \E cs \in CallSequences, n \in Counts, t \in Counts :
          /\ TotalTurns(cs, n, t) <= MaxTotalTurns
          /\ calls = cs
          /\ sim = MonopolySimulation(n, t)
    /\ jail_strategy = "" /\ landing_counts = None /\ iteration = 0 /\ results = <<>>
    /\ NoCard /\ NoDeck /\ NoPlayer /\ NoRandom

\* run_simulation is entered: landing_counts = np.zeros(...), the outer loop starts
RunSimulation ==
    /\ pc = "call"
    /\ calls # <<>>
    /\ jail_strategy' = Head(calls)
    /\ calls' = Tail(calls)
    /\ landing_counts' = Some(zeros)
    /\ iteration' = 0
    /\ pc' = "iteration"
    /\ UNCHANGED <<randomVars, raised, sim, results, cardVars, deckVars, playerVars>>

\* for iteration in range(self.num_iterations): a new player and new decks
NewIteration ==
    /\ pc = "iteration"
    /\ iteration < sim.num_iterations
    /\ player' = Player(jail_strategy)
    /\ chance_deck' = create_decks[1]
    /\ community_chest_deck' = create_decks[2]
    /\ turn' = 0
    /\ last' = None
    /\ pc' = "turn"
    /\ UNCHANGED <<randomVars, raised, simVars, cardVars, deckVars>>

increment_unless_jail(counts, final_position) ==
    IF final_position = JAIL_SPACE
    THEN [counts |-> counts, raised |-> FALSE]
    ELSE [counts |-> [counts EXCEPT ![final_position] = @ + 1], raised |-> FALSE]

\* landing_counts[final_position] += 1: a negative index counts from the end,
\* an index outside -40..39 raises IndexError
increment(counts, final_position) ==
    LET i == IF final_position < 0 THEN final_position + 40 ELSE final_position
    IN  IF i \in 0..39
        THEN [counts |-> [counts EXCEPT ![i] = @ + 1], raised |-> FALSE]
        ELSE [counts |-> counts, raised |-> TRUE]

\* for turn in range(self.turns_per_iteration): one take_turn, one count
Turn ==
    /\ pc = "turn"
    /\ turn < sim.turns_per_iteration
    /\ \E r \in Rolls :
         \E w \in take_turn(player, chance_deck, community_chest_deck, r) :
            /\ player' = w.player
            /\ chance_deck' = w.chance_deck
            /\ community_chest_deck' = w.community_chest_deck
            /\ last' = Some(Observation(last, player, w))
            /\ IF w.raised
               THEN /\ raised' = TRUE
                    /\ pc' = "raised"
                    /\ UNCHANGED landing_counts
               ELSE LET inc == increment(landing_counts[1], w.ret[1])
                    IN  /\ landing_counts' = Some(inc.counts)
                        /\ raised' = inc.raised
                        /\ pc' = IF inc.raised THEN "raised" ELSE "turn"
    /\ turn' = turn + 1
    /\ UNCHANGED <<randomVars, sim, calls, jail_strategy, iteration, results, cardVars, deckVars>>

\* the inner loop is exhausted: on to the next iteration
EndIteration ==
    /\ pc = "turn"
    /\ turn >= sim.turns_per_iteration
    /\ iteration' = iteration + 1
    /\ pc' = "iteration"
    /\ UNCHANGED <<randomVars, raised, sim, calls, jail_strategy, landing_counts, results,
                   cardVars, deckVars, playerVars>>

\* the outer loop is exhausted: self.landing_counts = landing_counts; return it.
\* The call's locals (player, decks, loop counters) end with it.
Return ==
    /\ pc = "iteration"
    /\ iteration >= sim.num_iterations
    /\ sim' = [sim EXCEPT !.landing_counts = landing_counts]
    /\ player' = None /\ chance_deck' = IdleDeck /\ community_chest_deck' = IdleDeck
    /\ turn' = 0 /\ last' = None
    /\ iteration' = 0
    /\ pc' = "returned"
    /\ UNCHANGED <<randomVars, raised, calls, jail_strategy, landing_counts, results, cardVars, deckVars>>

\* probs = sim.calculate_probabilities(counts)
CalculateProbabilities ==
    /\ pc = "returned"
    /\ results' = Append(results, [jail_strategy |-> jail_strategy,
                                   counts |-> landing_counts[1],
                                   probabilities |-> calculate_probabilities(landing_counts[1])])
    /\ landing_counts' = None
    /\ pc' = IF calls = <<>> THEN "done" ELSE "call"
    /\ UNCHANGED <<randomVars, raised, sim, calls, jail_strategy, iteration, cardVars, deckVars, playerVars>>

Next ==
    \/ RunSimulation
    \/ NewIteration
    \/ Turn
    \/ EndIteration
    \/ Return
    \/ CalculateProbabilities

Spec == Init /\ [][Next]_vars

-----------------------------------------------------------------------------
(* Repeated run: a caller seeds `random`, calls run_simulation and           *)
(* calculate_probabilities, then seeds `random` with the same seed and makes *)
(* the same call on the same MonopolySimulation.                             *)
(*                                                                           *)
(* A seed fixes the sequence of values `random` returns.  random_tape is     *)
(* that sequence as far as it has been asked for: <<"randint", roll>> for    *)
(* the two randint calls of roll_dice, <<deck, card>> for a card a shuffle   *)
(* left on top.  A call that asks beyond the tape gets any value and appends *)
(* it; a call that asks within it gets the value recorded there.             *)

\* The values a take_turn call got from `random`, in order
Outcomes(w) == << <<"randint", w.roll>> >> \o w.drawn

\* The values out, asked for at position pos, are those the tape holds there
Agrees(out, tape, pos) ==
    \A j \in 1..Len(out) : pos + j <= Len(tape) => tape[pos + j] = out[j]

\* The tape after the values out were asked for at position pos
Extend(out, tape, pos) ==
    IF pos + Len(out) > Len(tape) THEN SubSeq(tape, 1, pos) \o out ELSE tape

\* The runs a caller repeats: either strategy, positive counts
RepeatCounts == 1..MaxRepeatTurns

InitRepeat ==
    /\ pc = "call"
    /\ raised = FALSE
    /\ \E s \in {"A", "B"}, n \in RepeatCounts, t \in RepeatCounts :
          /\ n * t <= MaxRepeatTurns
          /\ calls = <<s, s>>
          /\ sim = MonopolySimulation(n, t)
    /\ jail_strategy = "" /\ landing_counts = None /\ iteration = 0 /\ results = <<>>
    /\ random_tape = <<>> /\ random_pos = 0
    /\ NoCard /\ NoDeck /\ NoPlayer

\* random.seed(seed); counts = sim.run_simulation(jail_strategy)
SeededRunSimulation ==
    /\ pc = "call"
    /\ calls # <<>>
    /\ random_pos' = 0
    /\ jail_strategy' = Head(calls)
    /\ calls' = Tail(calls)
    /\ landing_counts' = Some(zeros)
    /\ iteration' = 0
    /\ pc' = "iteration"
    /\ UNCHANGED <<random_tape, raised, sim, results, cardVars, deckVars, playerVars>>

\* One take_turn and one count, with the values `random` returns under the
\* seed.  If the call asks for a value of another kind than the tape holds at
\* that place (a card where a roll was, a card the deck does not hold) the
\* model cannot say what `random` returns: pc becomes "diverged".
SeededTurn ==
    /\ pc = "turn"
    /\ turn < sim.turns_per_iteration
    /\ LET W == {w \in UNION {take_turn(player, chance_deck, community_chest_deck, r) :
                                  r \in Rolls} :
                    Agrees(Outcomes(w), random_tape, random_pos)}
       IN  IF W = {}
           THEN /\ pc' = "diverged"
                /\ UNCHANGED <<raised, player, chance_deck, community_chest_deck, last,
                               landing_counts, randomVars>>
           ELSE \E w \in W :
                  /\ player' = w.player
                  /\ chance_deck' = w.chance_deck
                  /\ community_chest_deck' = w.community_chest_deck
                  /\ last' = Some(Observation(last, player, w))
                  /\ random_tape' = Extend(Outcomes(w), random_tape, random_pos)
                  /\ random_pos' = random_pos + Len(Outcomes(w))
                  /\ IF w.raised
                     THEN /\ raised' = TRUE
                          /\ pc' = "raised"
                          /\ UNCHANGED landing_counts
                     ELSE LET inc == increment(landing_counts[1], w.ret[1])
                          IN  /\ landing_counts' = Some(inc.counts)
                              /\ raised' = inc.raised
                              /\ pc' = IF inc.raised THEN "raised" ELSE "turn"
    /\ turn' = turn + 1
    /\ UNCHANGED <<sim, calls, jail_strategy, iteration, results, cardVars, deckVars>>

NextRepeat ==
    \/ SeededRunSimulation
    \/ NewIteration
    \/ SeededTurn
    \/ EndIteration
    \/ Return
    \/ CalculateProbabilities

SpecRepeat == InitRepeat /\ [][NextRepeat]_vars

-----------------------------------------------------------------------------
(* Claims about the decks and the cards *)

\* C7: drawing never fails.  Every draw returns a card of the deck's
\* definition and no IndexError escapes; the deck holds 0..16 cards; a draw on
\* an empty deck refills it with the full 16-card multiset and removes one, so
\* 15 cards are left and they are the definition minus the card drawn.
C7_DrawNeverFails ==
    pc = "deck" =>
        /\ ~raised
        /\ BagCardinality(deck.cards) \in 0..16
        /\ ndraws > 0 =>
              /\ card # None
              /\ InList(card[1], deck.all_cards)
        /\ refilled =>
              /\ BagCardinality(deck.cards) = 15
              /\ deck.cards (+) SetToBag({card[1]}) = SeqToBag(deck.all_cards)

\* C7 witness: the 17th draw found the deck empty and refilled it.
C7_Witness ==
    /\ pc = "deck" /\ ndraws = 17 /\ refilled /\ card # None
    /\ BagCardinality(deck.cards) = 15

CountCards(list, S) == Cardinality({i \in 1..Len(list) : list[i] \in S})

\* The composition of a deck definition a: n AdvanceTo cards, one of them to Go
ChanceComposition(a, n) ==
    /\ CountCards(a, {AdvanceToCard(t) : t \in Positions}) = n
    /\ CountCards(a, {AdvanceToCard(GO_SPACE)}) = 1
    /\ CountCards(a, {NearestRailroadCard}) = 2
    /\ CountCards(a, {NearestUtilityCard}) = 1
    /\ CountCards(a, {GoBackCard}) = 1
    /\ CountCards(a, {GoToJailCard}) = 1
    /\ CountCards(a, {Card}) = 7

CommunityChestComposition(a) ==
    /\ CountCards(a, {AdvanceToCard(t) : t \in Positions}) = 1
    /\ CountCards(a, {AdvanceToCard(GO_SPACE)}) = 1
    /\ CountCards(a, {GoToJailCard}) = 1
    /\ CountCards(a, {Card}) = 14

\* C8 as stated: the Chance definition is 16 cards: 3 AdvanceTo (one to Go),
\* 2 nearest railroad, 1 nearest utility, 1 go back 3, 1 go to jail, 7 without
\* effect; the Community-Chest definition is 16 cards: 1 AdvanceTo Go, 1 go to
\* jail, 14 without effect.
C8_AsStated ==
    pc = "deck" =>
        /\ Len(deck.all_cards) = 16
        /\ which = "ChanceDeck" => ChanceComposition(deck.all_cards, 3)
        /\ which = "CommunityChestDeck" => CommunityChestComposition(deck.all_cards)

\* C8 amended: the Chance definition is 16 cards: 4 AdvanceTo (Go, 24, 11 and
\* 39), 2 nearest railroad, 1 nearest utility, 1 go back 3, 1 go to jail and
\* 7 without effect; the Community-Chest definition is 16 cards: 1 AdvanceTo
\* Go, 1 go to jail, 14 without effect.  A newly built deck holds exactly its
\* definition, and the definition never changes.
C8_DeckDefinitions ==
    pc = "deck" =>
        LET a == deck.all_cards
        IN  /\ Len(a) = 16
            /\ ndraws = 0 => BagCardinality(deck.cards) = 16 /\ deck.cards = SeqToBag(a)
            /\ which = "ChanceDeck" =>
                  /\ ChanceComposition(a, 4)
                  /\ \A t \in {GO_SPACE, 24, 11, 39} : CountCards(a, {AdvanceToCard(t)}) = 1
            /\ which = "CommunityChestDeck" => CommunityChestComposition(a)

\* C8 witness: a newly built Chance deck, nothing drawn yet.
C8_Witness ==
    /\ pc = "deck" /\ which = "ChanceDeck" /\ ndraws = 0
    /\ BagCardinality(deck.cards) = 16

\* The smallest member of S above p, or the smallest member of S when none is
Clockwise(S, p) ==
    LET above == {s \in S : s > p}
        least(T) == CHOOSE m \in T : \A t \in T : m <= t
    IN  IF above = {} THEN least(S) ELSE least(above)

\* C9: from every position p the nearest-railroad card resolves to the
\* smallest of 5, 15, 25, 35 strictly above p, or to 5 when none is, and the
\* nearest-utility card to the smallest of 12, 28 strictly above p, or to 12;
\* neither sends to jail, and neither leaves the player in place.
C9_NearestClockwise ==
    (pc = "card" /\ result # None) =>
        /\ arg[1] = NearestRailroadCard =>
              /\ result[1] = <<Clockwise({5, 15, 25, 35}, arg[2]), FALSE>>
              /\ result[1][1] # arg[2]
        /\ arg[1] = NearestUtilityCard =>
              /\ result[1] = <<Clockwise({12, 28}, arg[2]), FALSE>>
              /\ result[1][1] # arg[2]

\* C9 witness: the railroad card applied on the last railroad wraps to 5.
C9_Witness ==
    /\ pc = "card" /\ arg = <<NearestRailroadCard, 35>>
    /\ result = Some(<<5, FALSE>>)

\* C10: from every position p the go-back-3 card resolves to
\* (p - 3 + 40) mod 40, a board position, and does not send to jail.
C10_GoBack3 ==
    (pc = "card" /\ result # None /\ arg[1] = GoBackCard) =>
        /\ result[1] = <<(arg[2] - 3 + 40) % 40, FALSE>>
        /\ result[1][1] \in 0..39

\* C10 witness: go back 3 from position 1 wraps below Go to 38.
C10_Witness ==
    /\ pc = "card" /\ arg = <<GoBackCard, 1>>
    /\ result = Some(<<38, FALSE>>)

-----------------------------------------------------------------------------
(* Claims about the turn and the run *)

\* C1: in every turn of every trajectory, whatever the strategy, the dice and
\* the cards, the position take_turn returns is in 0..39, it indexes the
\* landing counters without an IndexError, and the player's stored position is
\* in 0..39 at every turn boundary.
C1_PositionInRange ==
    /\ ~raised
    /\ player # None => player.position \in 0..39
    /\ last # None =>
          /\ last[1].final_position # None
          /\ last[1].final_position[1] \in 0..39
          /\ last[1].before.position \in 0..39

\* C1 witness: a counted turn whose roll carried the player past Go.
C1_Witness ==
    /\ pc = "turn" /\ last # None
    /\ ~last[1].before.in_jail
    /\ last[1].before.position + last[1].total >= 40
    /\ last[1].final_position[1] \in 0..39
    /\ landing_counts[1][last[1].final_position[1]] >= 1

\* The request the caller made is one the interface excludes
InvalidRequest ==
    \/ sim.num_iterations <= 0
    \/ sim.turns_per_iteration <= 0
    \/ jail_strategy \notin {"", "A", "B"}

\* C2 as stated: a run requested with a non-positive iteration count, a
\* non-positive turns-per-iteration count or a strategy other than A or B is
\* rejected before any work: no player or deck is created, no turn resolved,
\* no counter incremented, and the call neither returns counts nor yields a
\* probability vector.
C2_FailFast ==
    (sim # None /\ InvalidRequest) =>
        /\ player = None
        /\ chance_deck = IdleDeck /\ community_chest_deck = IdleDeck
        /\ last = None
        /\ pc \notin {"returned", "done"}
        /\ results = <<>>

\* The released player of observation o: move_amount is the roll, landing
\* resolution started at Jail + roll, and the player is in jail afterwards only
\* if a go-to-jail card drawn in that resolution sent them back
Released(o) ==
    /\ o.move_amount = Some(o.total)
    /\ o.landings # <<>>
    /\ o.landings[1] = JAIL_SPACE + o.total
    /\ o.drawn = <<>> => (~player.in_jail /\ player.position = JAIL_SPACE + o.total)
    /\ player.in_jail =>
          /\ o.drawn # <<>>
          /\ o.drawn[Len(o.drawn)][2] = GoToJailCard
    /\ player.jail_turns = 0

\* C3: under strategy A a player is released no later than the third turn in
\* a row begun in jail, whatever the dice show, and at once on a jailed turn
\* whose roll is doubles: there is no fourth such turn, and the releasing turn
\* advances from the Jail space by its roll.
C3_ReleasedByThirdJailTurn ==
    (pc = "player" /\ last # None /\ player.jail_strategy = "A" /\ last[1].before.in_jail) =>
        /\ last[1].jailed_turn_no \in 1..3
        /\ (last[1].is_doubles \/ last[1].jailed_turn_no = 3) => Released(last[1])

\* C3 witness: the third turn in a row begun in jail, no doubles, released.
C3_Witness ==
    /\ pc = "player" /\ last # None /\ player.jail_strategy = "A"
    /\ last[1].jailed_turn_no = 3 /\ ~last[1].is_doubles
    /\ ~player.in_jail /\ player.position = JAIL_SPACE + last[1].total

\* C4: under strategy B every turn begun in jail releases the player: it sets
\* in_jail false and jail_turns 0, advances from the Jail space by the roll and
\* runs landing resolution, so no turn begun in jail leaves the player in jail
\* unmoved and no player begins two turns in a row of one jail stay.
C4_LeavesJailAtOnce ==
    (pc = "player" /\ last # None /\ player.jail_strategy = "B" /\ last[1].before.in_jail) =>
        /\ Released(last[1])
        /\ last[1].jailed_turn_no = 1
        /\ last[1].before.jail_turns = 0
        /\ last[1].final_position = Some(player.position)

\* C4 witness: a strategy-B turn begun in jail, no doubles, ended free.
C4_Witness ==
    /\ pc = "player" /\ last # None /\ player.jail_strategy = "B"
    /\ last[1].before.in_jail /\ ~last[1].is_doubles
    /\ ~player.in_jail /\ player.position = JAIL_SPACE + last[1].total

\* C5: a free player with two doubles behind them who rolls doubles again ends
\* the turn in jail on space 10 with jail_turns and consecutive_doubles 0; the
\* roll is not applied, 10 is returned, landing resolution does not run and
\* neither deck changes.
C5_ThreeDoubles ==
    [][ ( /\ pc = "player" /\ turn' = turn + 1
          /\ ~player.in_jail
          /\ player.consecutive_doubles + 1 = 3
          /\ last'[1].is_doubles )
        => ( /\ player' = [player EXCEPT !.position = 10, !.in_jail = TRUE,
                                         !.jail_turns = 0, !.consecutive_doubles = 0]
             /\ last'[1].final_position = Some(10)
             /\ last'[1].landings = <<>>
             /\ last'[1].drawn = <<>>
             /\ chance_deck' = chance_deck
             /\ community_chest_deck' = community_chest_deck ) ]_vars

\* C5 witness: the third doubles in a row of a free player, now in jail.
C5_Witness ==
    /\ pc = "player" /\ last # None
    /\ ~last[1].before.in_jail /\ last[1].before.consecutive_doubles = 2
    /\ last[1].is_doubles
    /\ player.in_jail /\ player.position = 10
    /\ last[1].before.position + last[1].total # 10

\* c[lo] + ... + c[hi]
RECURSIVE Total(_, _, _)
Total(c, lo, hi) == IF lo > hi THEN 0 ELSE c[lo] + Total(c, lo + 1, hi)

\* A run of positive size: iterations > 0 trajectories of turns > 0 turns
PositiveRun == sim.num_iterations > 0 /\ sim.turns_per_iteration > 0

\* C6: in a run of num_iterations > 0 trajectories of turns_per_iteration > 0
\* turns, every turn adds exactly 1 to exactly one counter, the one of the
\* returned position, also when the player stayed in jail; the returned
\* counters sum to num_iterations * turns_per_iteration and the probabilities
\* are the counters over that total, so they sum to 1; this holds for every
\* call on the same MonopolySimulation, a B run after an A run included.
\* (The finished runs are looked at whenever a call has just been completed.)
C6_CountsDuringRun ==
    (sim # None /\ PositiveRun) =>
        LET n == sim.num_iterations
            t == sim.turns_per_iteration
        IN  /\ pc = "turn" => Total(landing_counts[1], 0, 39) = iteration * t + turn
            /\ pc = "returned" =>
                  /\ Total(landing_counts[1], 0, 39) = n * t
                  /\ sim.landing_counts = landing_counts
            /\ pc \in {"call", "done"} =>
                  \A k \in 1..Len(results) :
                      /\ Total(results[k].counts, 0, 39) = n * t
                      /\ \A i \in 0..39 :
                            results[k].probabilities[i] =
                                [num |-> results[k].counts[i], den |-> n * t]
                      /\ Total([i \in 0..39 |-> results[k].probabilities[i].num], 0, 39) = n * t

C6_OneCounterPerTurn ==
    [][ (pc = "turn" /\ turn' = turn + 1) =>
            LET i == last'[1].final_position[1]
            IN  /\ i \in 0..39
                /\ landing_counts'[1] = [landing_counts[1] EXCEPT ![i] = @ + 1] ]_vars

C6_CountersSum == []C6_CountsDuringRun /\ C6_OneCounterPerTurn

\* C6 witness: run_both_strategies has finished: the B run followed the A run
\* on the same MonopolySimulation, and its counters sum to its own turns.
C6_Witness ==
    /\ pc = "done" /\ Len(results) = 2
    /\ results[1].jail_strategy = "A" /\ results[2].jail_strategy = "B"
    /\ Total(results[2].counts, 0, 39) = sim.num_iterations * sim.turns_per_iteration
    /\ results[1].counts # results[2].counts

\* C11: every trajectory starts from a new state however the trajectory before
\* it, or the other policy's run, ended: when its first turn is about to be
\* taken the player is on Go, not in jail, with jail_turns = 0 and
\* consecutive_doubles = 0, plays the strategy of the run, and both decks are
\* newly built and hold the 16 cards of their definitions; nothing of the
\* player or the decks of an earlier trajectory is left.
C11_FreshTrajectory ==
    (pc = "turn" /\ turn = 0) =>
        /\ player = [position |-> GO_SPACE, in_jail |-> FALSE, jail_turns |-> 0,
                     consecutive_doubles |-> 0, jail_strategy |-> jail_strategy]
        /\ BagCardinality(chance_deck.cards) = 16
        /\ BagCardinality(community_chest_deck.cards) = 16
        /\ chance_deck.cards = SeqToBag(ChanceDeck_cards)
        /\ community_chest_deck.cards = SeqToBag(CommunityChestDeck_cards)
        /\ last = None

\* C11 witness: the second trajectory of a run is about to start; the first
\* one was a single turn that ended on Go, which only a drawn card can do, so
\* a deck of the first trajectory had lost a card.
C11_Witness ==
    /\ pc = "turn" /\ turn = 0 /\ iteration = 1
    /\ sim.turns_per_iteration = 1
    /\ landing_counts[1][GO_SPACE] = 1
    /\ player.position = GO_SPACE /\ ~player.in_jail
    /\ BagCardinality(chance_deck.cards) = 16
    /\ BagCardinality(community_chest_deck.cards) = 16

\* C13: whenever landing resolution runs with the player on the Go-To-Jail
\* space 30, the player becomes jailed at position 10 with jail_turns = 0 and
\* consecutive_doubles = 0, the turn returns the Jail index 10, and no card is
\* drawn: both decks are the same after the turn as before it.
C13_GoToJailSpace ==
    [][ ( /\ pc = "player" /\ turn' = turn + 1
          /\ \E i \in DOMAIN last'[1].landings : last'[1].landings[i] = GO_TO_JAIL_SPACE )
        => ( /\ last'[1].landings = <<GO_TO_JAIL_SPACE>>
             /\ player' = [position |-> 10, in_jail |-> TRUE, jail_turns |-> 0,
                           consecutive_doubles |-> 0,
                           jail_strategy |-> player.jail_strategy]
             /\ last'[1].final_position = Some(10)
             /\ last'[1].drawn = <<>>
             /\ chance_deck' = chance_deck
             /\ community_chest_deck' = community_chest_deck ) ]_vars

\* C13 witness: a free player rolled doubles onto space 30 and is in jail,
\* the doubles count back at 0.
C13_Witness ==
    /\ pc = "player" /\ last # None
    /\ ~last[1].before.in_jail /\ last[1].is_doubles
    /\ last[1].before.position + last[1].total = GO_TO_JAIL_SPACE
    /\ last[1].landings = <<GO_TO_JAIL_SPACE>>
    /\ player.in_jail /\ player.position = 10 /\ player.consecutive_doubles = 0
    /\ last[1].final_position = Some(10)

\* C14: under strategy A a turn begun in jail whose roll is not doubles and
\* whose incremented jail_turns is still below 3 keeps the player in jail:
\* position and consecutive_doubles are unchanged, neither deck is drawn from,
\* jail_turns grows by exactly 1, the turn returns the Jail position 10, and
\* that position is counted in the landing counters like any other.
C14_StaysInJail ==
    [][ ( /\ pc = "turn" /\ turn' = turn + 1
          /\ jail_strategy = "A"
          /\ player.in_jail
          /\ ~last'[1].is_doubles
          /\ player.jail_turns + 1 < 3 )
        => ( /\ player' = [player EXCEPT !.jail_turns = @ + 1]
             /\ player'.in_jail /\ player'.position = JAIL_SPACE
             /\ last'[1].move_amount = None
             /\ last'[1].landings = <<>>
             /\ last'[1].drawn = <<>>
             /\ chance_deck' = chance_deck
             /\ community_chest_deck' = community_chest_deck
             /\ last'[1].final_position = Some(JAIL_SPACE)
             /\ landing_counts'[1] = [landing_counts[1] EXCEPT ![JAIL_SPACE] = @ + 1] ) ]_vars

\* C14 witness: a strategy-A player sent to jail by the first turn has sat out
\* the second and the third; each of the three turns was counted on 10.
C14_Witness ==
    /\ pc = "turn" /\ turn = 3 /\ jail_strategy = "A" /\ last # None
    /\ last[1].before.in_jail /\ last[1].before.jail_turns = 1
    /\ ~last[1].is_doubles /\ last[1].move_amount = None
    /\ player.in_jail /\ player.jail_turns = 2 /\ player.position = JAIL_SPACE
    /\ landing_counts[1][JAIL_SPACE] = 3

\* C15: at every turn boundary consecutive_doubles is in 0..2 and jail_turns
\* is in 0..3.  consecutive_doubles is 0 after every free turn whose roll was
\* not doubles and whenever the player is in jail, and a turn begun in jail
\* (one whose doubles roll releases the player included) leaves it as it was.
\* jail_turns is 0 whenever the player is not in jail and right after every
\* entry into jail.
C15_CounterRanges ==
    pc = "player" =>
        /\ player.consecutive_doubles \in 0..2
        /\ player.jail_turns \in 0..3
        /\ player.in_jail => player.consecutive_doubles = 0
        /\ ~player.in_jail => player.jail_turns = 0
        /\ last # None =>
              LET o == last[1]
              IN  /\ (~o.before.in_jail /\ ~o.is_doubles) => player.consecutive_doubles = 0
                  /\ o.before.in_jail =>
                        player.consecutive_doubles = o.before.consecutive_doubles
                  /\ (player.in_jail /\ (~o.before.in_jail \/ o.move_amount # None)) =>
                        player.jail_turns = 0

\* C15 witness: a strategy-A player who had sat in jail for a turn rolled
\* doubles and is free: jail_turns is back at 0 and the doubles of the release
\* were not counted.
C15_Witness ==
    /\ pc = "player" /\ last # None
    /\ last[1].before.in_jail /\ last[1].before.jail_turns = 1
    /\ last[1].is_doubles
    /\ ~player.in_jail /\ player.jail_turns = 0 /\ player.consecutive_doubles = 0

\* The cards of the sequence of draws D that came from the deck called name
DrawnFrom(D, name) ==
    LET sel == SelectSeq(D, LAMBDA d : d[1] = name)
    IN  SeqToBag([i \in 1..Len(sel) |-> sel[i][2]])

\* a card that moves the player without sending them to jail
Relocates(c) == c.affects_position /\ c.class # "GoToJailCard"

\* C16, the turn as it ended.  L are the positions landing resolution ran at
\* and D the cards drawn, in order.  The i-th card is drawn at the i-th
\* position, from the deck of that space.  After a card that moves the player
\* without jailing them resolution runs again at the new position, and draws
\* there if it is a deck space: Go Back 3 drawn on Chance 36 puts the player
\* on Community Chest 33 and a Community Chest card is drawn in the same turn.
\* A card without movement ends resolution where the player stands, not in
\* jail.  The returned position is the position after the last effect.
C16_ChainAsEnded ==
    (pc = "player" /\ last # None /\ last[1].landings # <<>>) =>
        LET L == last[1].landings
            D == last[1].drawn
        IN  /\ Len(D) <= Len(L)
            /\ \A i \in 1..Len(D) :
                  LET c == D[i][2]
                  IN  /\ D[i][1] \in {"chance", "community_chest"}
                      /\ D[i][1] = "chance" <=> is_chance(L[i])
                      /\ D[i][1] = "community_chest" <=> is_community_chest(L[i])
                      /\ Relocates(c) =>
                            /\ Len(L) >= i + 1
                            /\ L[i + 1] = apply(c, L[i])[1]
                            /\ (is_chance(L[i + 1]) \/ is_community_chest(L[i + 1]))
                                  => Len(D) >= i + 1
                      /\ (L[i] = 36 /\ c = GoBackCard) =>
                            /\ L[i + 1] = 33
                            /\ Len(D) >= i + 1
                            /\ D[i + 1][1] = "community_chest"
                      /\ ~c.affects_position =>
                            /\ i = Len(D) /\ i = Len(L)
                            /\ player.position = L[i]
                            /\ ~player.in_jail
                      /\ c = GoToJailCard =>
                            /\ i = Len(D) /\ i = Len(L)
                            /\ player.position = JAIL_SPACE /\ player.in_jail
            /\ last[1].final_position = Some(player.position)
            /\ (D # <<>> /\ Relocates(D[Len(D)][2])) =>
                  /\ Len(L) = Len(D) + 1
                  /\ player.position = L[Len(L)]

\* C16, the decks: a turn takes from each deck exactly the cards it drew from
\* it, one for a turn that drew a single card without movement, and leaves the
\* other deck as it was.
C16_CardsRemoved ==
    [][ (pc = "player" /\ turn' = turn + 1) =>
            /\ chance_deck.cards =
                  chance_deck'.cards (+) DrawnFrom(last'[1].drawn, "chance")
            /\ community_chest_deck.cards =
                  community_chest_deck'.cards (+) DrawnFrom(last'[1].drawn, "community_chest")
            /\ (Len(last'[1].drawn) = 1 /\ ~last'[1].drawn[1][2].affects_position) =>
                  /\ BagCardinality(chance_deck'.cards)
                        + BagCardinality(community_chest_deck'.cards)
                     = BagCardinality(chance_deck.cards)
                        + BagCardinality(community_chest_deck.cards) - 1
                  /\ player'.position = last'[1].landings[1]
                  /\ ~player'.in_jail ]_vars

\* C16: landing resolution is applied again after every card-triggered move
\* that does not send the player to jail (Go Back 3 from Chance 36 onto
\* Community Chest 33 draws a Community Chest card in the same turn and
\* applies it), the returned position is the position after the last effect,
\* and a card without movement stops resolution with position and jail status
\* unchanged and exactly one card gone from the deck it was drawn from.
C16_LandingReapplied == []C16_ChainAsEnded /\ C16_CardsRemoved

\* C16 witness: Go Back 3 drawn on 36, then Advance to Go drawn on 33: the
\* turn ran landing resolution at 36, 33 and 0 and returned 0.
C16_Witness ==
    /\ pc = "player" /\ last # None
    /\ last[1].landings = <<36, 33, 0>>
    /\ last[1].drawn = << <<"chance", GoBackCard>>,
                          <<"community_chest", AdvanceToCard(GO_SPACE)>> >>
    /\ last[1].final_position = Some(0)
    /\ player.position = 0 /\ ~player.in_jail

\* C17, the cycle so far: the cards drawn since the last shuffle and the cards
\* left in the deck together are the 16-card definition, draw number 16k + j
\* (j in 1..16) is the j-th of its cycle, and when a cycle is complete the
\* cards it returned are exactly the definition, its one GoToJailCard included.
C17_CycleSoFar ==
    (pc = "deck" /\ ndraws > 0) =>
        /\ since_shuffle (+) deck.cards = SeqToBag(deck.all_cards)
        /\ BagCardinality(since_shuffle) = ((ndraws - 1) % 16) + 1
        /\ ndraws % 16 = 0 =>
              /\ since_shuffle = SeqToBag(deck.all_cards)
              /\ CopiesIn(GoToJailCard, since_shuffle) = 1
              /\ deck.cards = EmptyBag

\* C17, the refill: the deck gets cards back only in a draw that found it empty
C17_RefillOnlyWhenEmpty ==
    [][ (pc = "deck" /\ ndraws' = ndraws + 1
           /\ BagCardinality(deck'.cards) >= BagCardinality(deck.cards))
        => (deck.cards = EmptyBag /\ ndraws % 16 = 0 /\ BagCardinality(deck'.cards) = 15) ]_vars

\* C17: between two refills a deck returns each card of its definition
\* exactly once: draws 16k+1 to 16k+16 are exactly the 16-card multiset of the
\* definition (one GoToJailCard per cycle), and the deck is refilled only when
\* it is empty.
C17_EachCardOncePerCycle == []C17_CycleSoFar /\ C17_RefillOnlyWhenEmpty

\* C17 witness: the second cycle of the Chance deck is complete: draws 17 to
\* 32 returned the whole definition and the deck is empty again.
C17_Witness ==
    /\ pc = "deck" /\ which = "ChanceDeck" /\ ndraws = 32
    /\ since_shuffle = SeqToBag(ChanceDeck_cards)
    /\ deck.cards = EmptyBag

\* The number of cards of the sequence of draws D that came from the deck name
DrawsFrom(D, name) == Cardinality({i \in 1..Len(D) : D[i][1] = name})

\* C18: landing resolution always terminates, from every position, with every
\* deck order and under either policy: the turn returns a position, having
\* drawn at most one Chance card and at most one Community Chest card, so at
\* most two cards and at most two card-triggered moves; a cap of 40 on the
\* chain of landings is never reached.
C18_LandingTerminates ==
    (pc = "player" /\ last # None) =>
        LET L == last[1].landings
            D == last[1].drawn
        IN  /\ ~raised
            /\ last[1].final_position # None
            /\ last[1].final_position[1] \in Positions
            /\ DrawsFrom(D, "chance") <= 1
            /\ DrawsFrom(D, "community_chest") <= 1
            /\ Len(D) <= 2
            /\ Cardinality({i \in 1..Len(D) : D[i][2].affects_position}) <= 2
            /\ Len(L) <= 3
            /\ Len(L) < 40

\* C18 witness: the longest chain there is: a Chance card and a Community
\* Chest card drawn in one turn, both moving the player, three landings.
C18_Witness ==
    /\ pc = "player" /\ last # None
    /\ Len(last[1].landings) = 3
    /\ DrawsFrom(last[1].drawn, "chance") = 1
    /\ DrawsFrom(last[1].drawn, "community_chest") = 1
    /\ last[1].final_position = Some(GO_SPACE)
    /\ BagCardinality(chance_deck.cards) = 15
    /\ BagCardinality(community_chest_deck.cards) = 15

\* C19: at every turn boundary a player who is in jail is on the Jail space
\* 10, whichever way they were sent there: the Go To Jail space, a
\* go-to-jail card of either deck or the third doubles in a row.
C19_JailedOnJailSpace ==
    (pc = "player" /\ player.in_jail) => player.position = JAIL_SPACE

\* C19 witness: a Community Chest go-to-jail card has put the player, who was
\* on space 2, 17 or 33, in jail on 10.
C19_Witness ==
    /\ pc = "player" /\ last # None
    /\ last[1].drawn # <<>>
    /\ last[1].drawn[Len(last[1].drawn)] = <<"community_chest", GoToJailCard>>
    /\ player.in_jail /\ player.position = JAIL_SPACE
    /\ last[1].final_position = Some(JAIL_SPACE)

\* C19, the converse fails: a player can end a turn on space 10 without being
\* in jail (this state is reachable)
C19_FreeOnJailSpace ==
    /\ pc = "player" /\ last # None
    /\ ~player.in_jail /\ player.position = JAIL_SPACE
    /\ last[1].final_position = Some(JAIL_SPACE)

\* C20: no turn ever ends on the Go-To-Jail space: the position take_turn
\* returns is never 30 under either policy, the player never rests there, and
\* counter 30 stays 0 during the whole run and in the counts it returns.
C20_NeverEndsOnGoToJail ==
    /\ (pc = "turn" /\ last # None) =>
          /\ last[1].final_position # Some(GO_TO_JAIL_SPACE)
          /\ player.position # GO_TO_JAIL_SPACE
    /\ landing_counts # None => landing_counts[1][GO_TO_JAIL_SPACE] = 0
    /\ \A k \in 1..Len(results) : results[k].counts[GO_TO_JAIL_SPACE] = 0

\* C20 witness: a turn of a run moved the player onto space 30; it returned
\* 10, counter 10 was incremented and counter 30 was not.
C20_Witness ==
    /\ pc = "turn" /\ last # None
    /\ last[1].before.position + last[1].total = GO_TO_JAIL_SPACE
    /\ last[1].landings = <<GO_TO_JAIL_SPACE>>
    /\ last[1].final_position = Some(JAIL_SPACE)
    /\ landing_counts[1][JAIL_SPACE] >= 1
    /\ landing_counts[1][GO_TO_JAIL_SPACE] = 0

\* C12: a run repeated with the same strategy, the same counts and the same
\* seed of the random source returns the same landing counters and the same
\* probability vector: the second run asks the random source for the same
\* values in the same order as the first, uses all of them and no more, and
\* nothing else (the counters or the player and decks the first run left)
\* enters its result.
C12_SameSeedSameResult ==
    /\ pc # "diverged"
    /\ pc # "raised"
    /\ random_pos <= Len(random_tape)
    /\ (pc = "done" /\ Len(results) = 2) =>
          /\ results[1].counts = results[2].counts
          /\ results[1].probabilities = results[2].probabilities
          /\ random_pos = Len(random_tape)

\* C12 witness: both runs of a repeated call are done; they were two
\* trajectories each, drew a card, and returned the same counters.
C12_Witness ==
    /\ pc = "done" /\ Len(results) = 2
    /\ sim.num_iterations >= 2
    /\ \E j \in 1..Len(random_tape) : random_tape[j][1] = "chance"
    /\ random_pos = Len(random_tape)
    /\ results[1].counts = results[2].counts
    /\ Total(results[2].counts, 0, 39) = sim.num_iterations * sim.turns_per_iteration

====
